---- MODULE Spec2Model ----
(***************************************************************************)
(* A model of the fixed-size thread pool of src/src/lib.rs: ThreadPool::new *)
(* (assert, channel, spawn loop), ThreadPool::execute (send), the worker    *)
(* loop of Worker::new (lock, recv, release, run the job) and               *)
(* Drop for ThreadPool (drop the sender, join the workers in order), plus   *)
(* the timed scenario of src/tests/test.rs.                                 *)
(***************************************************************************)
EXTENDS Naturals, Integers, Sequences, FiniteSets, TLC

\* ------------------------------------------------------------------ bounds
\* Largest `size` passed to ThreadPool::new.
MaxSize == 2

\* Largest number of execute() calls over the pool's life.
MaxJobs == 3

\* The caller threads that share the pool (&self) and call execute().
Callers == {1, 2}

\* What a submitted closure does when run: return, panic, or never return.
Kinds == {"ok", "panic", "loop"}

\* --------------------------------------------------- constants of the test
\* src/tests/test.rs:9    ThreadPool::new(3)
TestSize == 3
\* src/tests/test.rs:14   for i in 1..=4
TestJobs == 4
\* src/tests/test.rs:13   let mut sleep_millis = 250
SleepStart == 250
\* src/tests/test.rs:21   sleep_millis += 250
SleepStep == 250

\* ------------------------------------------------------------------- state
VARIABLES
    size,       \* the argument of ThreadPool::new
    newPc,      \* where ThreadPool::new is: "call", "channel", "spawn", "ok", "err", "panicked"
    sender,     \* the channel's only Sender: "none", "live", "dropped"
    receiver,   \* the Receiver behind Arc<Mutex<..>>: "none", "live", "dropped"
    queue,      \* the channel's buffer, oldest job first
    lock,       \* the Mutex: 0 when free, else the worker holding the guard
    poisoned,   \* the Mutex is poisoned: a thread panicked while holding the guard
    workers,    \* Vec<Worker>: each worker's `thread` Option, "Some" or "None"
    wpc,        \* each worker thread's position in its loop
    wjob,       \* the job a worker thread holds (NoJob when none)
    t0,         \* the time at which a worker started its current job
    kind,       \* what each enqueued job does when run ("none": not enqueued)
    cpc,        \* each caller thread: "ready", or "panicked" in execute
    started,    \* the jobs in the order recv handed them to workers
    finished,   \* the jobs whose closure returned
    dropPc,     \* Drop::drop: "live", "join", "returned", "aborted"
    joinIdx,    \* the index of the worker Drop::drop is at
    now,        \* the clock (it only moves in the timed test scenario)
    tpc,        \* the test's main thread: "submit", "collect", "passed", "failed"
    numbers     \* the test's collector, in arrival order

vars == <<size, newPc, sender, receiver, queue, lock, poisoned, workers, wpc, wjob, t0,
          kind, cpc, started, finished, dropPc, joinIdx, now, tpc, numbers>>

poolVars == <<size, newPc, sender, receiver, queue, lock, poisoned, workers, wpc, wjob, t0,
              kind, cpc, started, finished, dropPc, joinIdx>>

testVars == <<now, tpc, numbers>>

\* ----------------------------------------------------------------- helpers
WorkerIds == 1..(IF MaxSize > TestSize THEN MaxSize ELSE TestSize)

JobsBound == IF MaxJobs > TestJobs THEN MaxJobs ELSE TestJobs

JobIds == (Callers \X (1..JobsBound))

NoJob == <<0, 0>>

\* A worker thread that exists and has not ended: it owns one Arc clone.
Alive(pc) == pc \in {"lock", "recv", "gotOk", "gotErr", "exec"}

LiveWorkers == {w \in WorkerIds : Alive(wpc[w])}

\* The worker threads that Builder::spawn created.
Born == {w \in WorkerIds : wpc[w] # "unborn"}

\* Jobs that execute() enqueued, and how many of them caller c enqueued.
Submitted == {j \in JobIds : kind[j] # "none"}

SubmittedBy(c) == {j \in Submitted : j[1] = c}

\* How many times j occurs in sequence s.
Count(s, j) == Cardinality({i \in 1..Len(s) : s[i] = j})

InQueue(j) == \E i \in 1..Len(queue) : queue[i] = j

\* The number of Arc<Mutex<Receiver>> clones once worker w's thread is gone
\* and ThreadPool::new is at np: new's local Arc (held from line 39 until new
\* returns) plus the clone each live thread's closure owns.
ArcsWithout(w, np) ==
    (IF np = "spawn" THEN 1 ELSE 0)
    + Cardinality(LiveWorkers \ {w})

\* What is left of the channel after an Arc clone went away: with no clone
\* left the Receiver is dropped, and the jobs still buffered with it.
ReceiverAfter(w, np) == IF ArcsWithout(w, np) = 0 THEN "dropped" ELSE receiver

QueueAfter(w, np) == IF ArcsWithout(w, np) = 0 THEN <<>> ELSE queue

\* A send that pushes to the front of the buffer.
SendFront(q, j) == <<j>> \o q

\* mpsc::Sender::send: the job goes to the back of the buffer.
Send(q, j) == Append(q, j)

\* mpsc::Receiver::recv on a non-empty buffer: the oldest job, and the rest.
RecvJob(q) == Head(q)

RecvRest(q) == Tail(q)

\* A lock that lets a thread in while another holds the guard.
CanLockAlways(w) == TRUE

\* Mutex::lock returns once no other thread holds the guard.
CanLock(w) == lock = 0

\* A join that returns without waiting for the thread.
ThreadEndedNoWait(i) == TRUE

\* A worker that keeps the guard while it runs the job (the guard bound to a
\* variable or to the scrutinee of the match instead of a temporary).
GuardHeldInJobYes == TRUE

\* lib.rs:93  the MutexGuard is a temporary of the `let message = ...`
\* statement: it is dropped when that statement ends, before the match.
GuardHeldInJob == FALSE

\* A join whose result is thrown away (`let _ = thread.join();`).
JoinFailedIgnored(i) == FALSE

\* lib.rs:80  join() is Err when the thread ended by panicking.
JoinFailed(i) == wpc[i] = "panicked"

\* JoinHandle::join returns once the thread has ended.
ThreadEnded(i) == wpc[i] \in {"terminated", "panicked"}

\* The closure of src/tests/test.rs:16-19 sleeps this long: 250 for the first
\* job, 250 more for each later one.
Duration(j) == SleepStart + (j[2] - 1) * SleepStep

\* -------------------------------------------------------------------- Init
InitWith(n) ==
    /\ size = n
    /\ newPc = "call"
    /\ sender = "none"
    /\ receiver = "none"
    /\ queue = <<>>
    /\ lock = 0
    /\ poisoned = FALSE
    /\ workers = <<>>
    /\ wpc = [w \in WorkerIds |-> "unborn"]
    /\ wjob = [w \in WorkerIds |-> NoJob]
    /\ t0 = [w \in WorkerIds |-> 0]
    /\ kind = [j \in JobIds |-> "none"]
    /\ cpc = [c \in Callers |-> "ready"]
    /\ started = <<>>
    /\ finished = {}
    /\ dropPc = "live"
    /\ joinIdx = 0
    /\ now = 0
    /\ tpc = "submit"
    /\ numbers = <<>>

Init == \E n \in 0..MaxSize : InitWith(n)

\* --------------------------------------------------------- ThreadPool::new
\* A constructor without the assertion.
SizeOkUnchecked(n) == TRUE

\* lib.rs:36  assert!(size > 0)
SizeOk(n) == n > 0

NewAssert ==
    /\ newPc = "call"
    /\ newPc' = IF SizeOk(size) THEN "channel" ELSE "panicked"
    /\ UNCHANGED <<size, poisoned, sender, receiver, queue, lock, workers, wpc, wjob, t0,
                   kind, cpc, started, finished, dropPc, joinIdx>>

\* lib.rs:38-41  the channel, the Arc<Mutex<Receiver>>, the empty Vec
NewChannel ==
    /\ newPc = "channel"
    /\ newPc' = "spawn"
    /\ sender' = "live"
    /\ receiver' = "live"
    /\ workers' = <<>>
    /\ UNCHANGED <<size, poisoned, queue, lock, wpc, wjob, t0, kind, cpc, started,
                   finished, dropPc, joinIdx>>

\* A spawn loop that stops one worker short.
SpawnDoneShort == Len(workers) + 1 >= size

\* lib.rs:43 the loop `for _ in 0..size` has run its course
SpawnDone == Len(workers) = size

\* lib.rs:44, 92-107  one iteration: the thread is spawned and starts its
\* loop, the handle is pushed
SpawnOk ==
    /\ newPc = "spawn"
    /\ ~SpawnDone
    /\ workers' = Append(workers, "Some")
    /\ wpc' = [wpc EXCEPT ![Len(workers) + 1] = "lock"]
    /\ UNCHANGED <<size, poisoned, newPc, sender, receiver, queue, lock, wjob, t0, kind,
                   cpc, started, finished, dropPc, joinIdx>>

\* A constructor that swallows the spawn error and returns the pool with the
\* workers spawned so far.
SpawnFailDegrade ==
    /\ newPc = "spawn"
    /\ ~SpawnDone
    /\ newPc' = "ok"
    /\ receiver' = ReceiverAfter(0, "ok")
    /\ queue' = QueueAfter(0, "ok")
    /\ UNCHANGED <<size, poisoned, sender, lock, workers, wpc, wjob, t0, kind,
                   cpc, started, finished, dropPc, joinIdx>>

\* A failing constructor that keeps the Sender alive (leaked, or stored
\* somewhere that outlives new).
SpawnFailKeepsSender ==
    /\ newPc = "spawn"
    /\ ~SpawnDone
    /\ newPc' = "err"
    /\ workers' = <<>>
    /\ receiver' = ReceiverAfter(0, "err")
    /\ queue' = QueueAfter(0, "err")
    /\ UNCHANGED <<size, poisoned, sender, lock, wpc, wjob, t0, kind, cpc,
                   started, finished, dropPc, joinIdx>>

\* lib.rs:44, 103  Builder::spawn fails: `?` returns the error; new's locals
\* (the handles pushed so far, its Arc, the Sender) are dropped, the threads
\* already spawned run on detached
SpawnFail ==
    /\ newPc = "spawn"
    /\ ~SpawnDone
    /\ newPc' = "err"
    /\ sender' = "dropped"
    /\ workers' = <<>>
    /\ receiver' = ReceiverAfter(0, "err")
    /\ queue' = QueueAfter(0, "err")
    /\ UNCHANGED <<size, poisoned, lock, wpc, wjob, t0, kind, cpc, started, finished,
                   dropPc, joinIdx>>

\* lib.rs:47-50  Ok(ThreadPool { workers, sender: Some(sender) }); new's own
\* Arc goes out of scope
NewReturn ==
    /\ newPc = "spawn"
    /\ SpawnDone
    /\ newPc' = "ok"
    /\ receiver' = ReceiverAfter(0, "ok")
    /\ queue' = QueueAfter(0, "ok")
    /\ UNCHANGED <<size, poisoned, sender, lock, workers, wpc, wjob, t0, kind, cpc,
                   started, finished, dropPc, joinIdx>>

\* ----------------------------------------------------- ThreadPool::execute
\* The pool exists and Drop has not begun: `&self` can be borrowed.
PoolLive == newPc = "ok" /\ dropPc = "live"

\* The next job of caller c.
NextJob(c) == <<c, Cardinality(SubmittedBy(c)) + 1>>

\* A send on a bounded channel (sync_channel(1)): it waits while the buffer
\* is full.
SendReadyBounded(q) == Len(q) < 1

\* lib.rs:38, 70  the channel is mpsc::channel(), which is unbounded: send
\* never waits for room.
SendReady(q) == TRUE

\* lib.rs:68-70  box the closure and send it; send fails only when the
\* Receiver is gone, and the unwrap then panics in the caller
Execute(c, k) ==
    /\ PoolLive
    /\ cpc[c] = "ready"
    /\ SendReady(queue)
    /\ IF receiver = "live"
         THEN /\ queue' = Send(queue, NextJob(c))
              /\ kind' = [kind EXCEPT ![NextJob(c)] = k]
              /\ cpc' = cpc
         ELSE /\ cpc' = [cpc EXCEPT ![c] = "panicked"]
              /\ UNCHANGED <<queue, kind>>
    /\ UNCHANGED <<size, poisoned, newPc, sender, receiver, lock, workers, wpc, wjob, t0,
                   started, finished, dropPc, joinIdx>>

\* ------------------------------------------------- the worker thread's loop
\* lib.rs:93  receiver.lock().unwrap(): wait for the guard. On a poisoned
\* Mutex lock() is Err and the unwrap panics: the thread ends, dropping its Arc
Lock(w) ==
    /\ wpc[w] = "lock"
    /\ CanLock(w)
    /\ IF poisoned
         THEN /\ wpc' = [wpc EXCEPT ![w] = "panicked"]
              /\ receiver' = ReceiverAfter(w, newPc)
              /\ queue' = QueueAfter(w, newPc)
              /\ lock' = lock
         ELSE /\ wpc' = [wpc EXCEPT ![w] = "recv"]
              /\ lock' = w
              /\ UNCHANGED <<receiver, queue>>
    /\ UNCHANGED <<size, poisoned, newPc, sender, workers, wjob, t0,
                   kind, cpc, started, finished, dropPc, joinIdx>>

\* lib.rs:93  .recv() returns Ok(job): the oldest buffered job
RecvOk(w) ==
    /\ wpc[w] = "recv"
    /\ queue # <<>>
    /\ wjob' = [wjob EXCEPT ![w] = RecvJob(queue)]
    /\ queue' = RecvRest(queue)
    /\ started' = Append(started, RecvJob(queue))
    /\ wpc' = [wpc EXCEPT ![w] = "gotOk"]
    /\ UNCHANGED <<size, poisoned, newPc, sender, receiver, lock, workers, t0, kind, cpc,
                   finished, dropPc, joinIdx>>

\* lib.rs:93  .recv() returns Err: the buffer is empty and the Sender is gone
RecvErr(w) ==
    /\ wpc[w] = "recv"
    /\ queue = <<>>
    /\ sender = "dropped"
    /\ wpc' = [wpc EXCEPT ![w] = "gotErr"]
    /\ UNCHANGED <<size, poisoned, newPc, sender, receiver, queue, lock, workers, wjob,
                   t0, kind, cpc, started, finished, dropPc, joinIdx>>

\* lib.rs:93-101  the statement ends and the guard is dropped; then the match:
\* Ok(job) calls the job, Err breaks out of the loop and the thread ends,
\* dropping its Arc
Release(w) ==
    /\ wpc[w] \in {"gotOk", "gotErr"}
    /\ lock' = IF wpc[w] = "gotOk" /\ GuardHeldInJob THEN lock ELSE 0
    /\ IF wpc[w] = "gotOk"
         THEN /\ wpc' = [wpc EXCEPT ![w] = "exec"]
              /\ t0' = [t0 EXCEPT ![w] = now]
              /\ UNCHANGED <<receiver, queue>>
         ELSE /\ wpc' = [wpc EXCEPT ![w] = "terminated"]
              /\ receiver' = ReceiverAfter(w, newPc)
              /\ queue' = QueueAfter(w, newPc)
              /\ t0' = t0
    /\ UNCHANGED <<size, poisoned, newPc, sender, workers, wjob, kind, cpc, started,
                   finished, dropPc, joinIdx>>

\* lib.rs:97  job() returns; the loop goes round
JobReturn(w) ==
    /\ wpc[w] = "exec"
    /\ kind[wjob[w]] = "ok"
    /\ finished' = finished \cup {wjob[w]}
    /\ wjob' = [wjob EXCEPT ![w] = NoJob]
    /\ wpc' = [wpc EXCEPT ![w] = "lock"]
    /\ lock' = IF GuardHeldInJob THEN 0 ELSE lock
    /\ UNCHANGED <<size, poisoned, newPc, sender, receiver, queue, workers, t0,
                   kind, cpc, started, dropPc, joinIdx>>

\* lib.rs:97  job() panics: nothing catches it, the thread unwinds and ends,
\* dropping the job and the thread's Arc; a guard dropped by the unwinding
\* would poison the Mutex
JobPanic(w) ==
    /\ wpc[w] = "exec"
    /\ kind[wjob[w]] = "panic"
    /\ wjob' = [wjob EXCEPT ![w] = NoJob]
    /\ wpc' = [wpc EXCEPT ![w] = "panicked"]
    /\ receiver' = ReceiverAfter(w, newPc)
    /\ queue' = QueueAfter(w, newPc)
    /\ lock' = IF GuardHeldInJob THEN 0 ELSE lock
    /\ poisoned' = (poisoned \/ GuardHeldInJob)
    /\ UNCHANGED <<size, newPc, sender, workers, t0, kind, cpc, started,
                   finished, dropPc, joinIdx>>

\* ---------------------------------------------------- Drop for ThreadPool
\* A drop that goes straight to the joins and leaves the sender open.
DropBeginNoClose ==
    /\ PoolLive
    /\ dropPc' = "join"
    /\ joinIdx' = 1
    /\ UNCHANGED <<size, poisoned, newPc, sender, receiver, queue, lock, workers,
                   wpc, wjob, t0, kind, cpc, started, finished>>

\* lib.rs:76  drop(self.sender.take())
DropBegin ==
    /\ PoolLive
    /\ sender' = "dropped"
    /\ dropPc' = "join"
    /\ joinIdx' = 1
    /\ UNCHANGED <<size, poisoned, newPc, receiver, queue, lock, workers, wpc, wjob, t0,
                   kind, cpc, started, finished>>

\* lib.rs:78-81  the next worker: take its handle and join it. join waits for
\* the thread to end; it is Err when the thread panicked, and the unwrap then
\* panics out of drop, leaving the later workers un-joined. (A handle is
\* always Some here: it is taken nowhere else.)
Join ==
    /\ dropPc = "join"
    /\ joinIdx <= Len(workers)
    /\ workers[joinIdx] = "Some"
    /\ ThreadEnded(joinIdx)
    /\ workers' = [workers EXCEPT ![joinIdx] = "None"]
    /\ IF JoinFailed(joinIdx)
         THEN dropPc' = "aborted" /\ joinIdx' = joinIdx
         ELSE dropPc' = dropPc /\ joinIdx' = joinIdx + 1
    /\ UNCHANGED <<size, poisoned, newPc, sender, receiver, queue, lock, wpc, wjob, t0,
                   kind, cpc, started, finished>>

\* lib.rs:78, 83  the loop is over: drop returns and the pool is gone
DropReturn ==
    /\ dropPc = "join"
    /\ joinIdx > Len(workers)
    /\ dropPc' = "returned"
    /\ UNCHANGED <<size, poisoned, newPc, sender, receiver, queue, lock, workers, wpc,
                   wjob, t0, kind, cpc, started, finished, joinIdx>>

\* ------------------------------------------------------- the specification
\* The model stops submitting after MaxJobs jobs.
JobsLeft == Cardinality(Submitted) < MaxJobs

Next ==
    \/ NewAssert /\ UNCHANGED testVars
    \/ NewChannel /\ UNCHANGED testVars
    \/ SpawnOk /\ UNCHANGED testVars
    \/ SpawnFail /\ UNCHANGED testVars
    \/ NewReturn /\ UNCHANGED testVars
    \/ \E c \in Callers, k \in Kinds :
           JobsLeft /\ Execute(c, k) /\ UNCHANGED testVars
    \/ \E w \in WorkerIds : Lock(w) /\ UNCHANGED testVars
    \/ \E w \in WorkerIds : RecvOk(w) /\ UNCHANGED testVars
    \/ \E w \in WorkerIds : RecvErr(w) /\ UNCHANGED testVars
    \/ \E w \in WorkerIds : Release(w) /\ UNCHANGED testVars
    \/ \E w \in WorkerIds : JobReturn(w) /\ UNCHANGED testVars
    \/ \E w \in WorkerIds : JobPanic(w) /\ UNCHANGED testVars
    \/ DropBegin /\ UNCHANGED testVars
    \/ Join /\ UNCHANGED testVars
    \/ DropReturn /\ UNCHANGED testVars

Spec == Init /\ [][Next]_vars

\* ---------------------------------------------------------------- fairness
\* Every thread that can take a step eventually takes one: each worker thread
\* (thread::Builder::spawn gives it an OS thread of its own), the thread inside
\* ThreadPool::new, and the thread inside drop. Nothing obliges a caller to
\* call execute or to drop the pool.
WorkerStep(w) ==
    /\ \/ Lock(w)
       \/ RecvOk(w)
       \/ RecvErr(w)
       \/ Release(w)
       \/ JobReturn(w)
       \/ JobPanic(w)
    /\ UNCHANGED testVars

NewStep ==
    /\ \/ NewAssert
       \/ NewChannel
       \/ SpawnOk
       \/ SpawnFail
       \/ NewReturn
    /\ UNCHANGED testVars

DropStep ==
    /\ \/ Join
       \/ DropReturn
    /\ UNCHANGED testVars

FairSpec ==
    /\ Spec
    /\ \A w \in WorkerIds : WF_vars(WorkerStep(w))
    /\ WF_vars(NewStep)
    /\ WF_vars(DropStep)

\* ------------------------------------- the timed scenario of tests/test.rs
\* test.rs:7-31. The main thread builds a pool of 3, submits 4 closures that
\* sleep 250, 500, 750 and 1000 ms and then send their index to a collector
\* channel, receives 4 numbers and compares them with [1, 2, 3, 4]; the pool
\* is dropped when the test function ends. Time passes only in the sleeps:
\* every other step takes no time and is taken before the clock moves.

\* The main thread is caller 1.
TestCaller == CHOOSE c \in Callers : \A d \in Callers : c <= d

\* [1, 2, 3, 4]  (test.rs:30)
Expected == [i \in 1..TestJobs |-> i]

\* test.rs:14-22  one round of the loop: pool.execute(closure i)
TestSubmit ==
    /\ tpc = "submit"
    /\ Execute(TestCaller, "sleep")
    /\ tpc' = IF Cardinality(Submitted) + 1 = TestJobs THEN "collect" ELSE "submit"
    /\ UNCHANGED <<now, numbers>>

\* test.rs:17-18 with lib.rs:97  the sleep is over: the closure sends its
\* index to the collector and returns; the worker's loop goes round
SleepJobReturn(w) ==
    /\ wpc[w] = "exec"
    /\ kind[wjob[w]] = "sleep"
    /\ now >= t0[w] + Duration(wjob[w])
    /\ numbers' = Append(numbers, wjob[w][2])
    /\ finished' = finished \cup {wjob[w]}
    /\ wjob' = [wjob EXCEPT ![w] = NoJob]
    /\ wpc' = [wpc EXCEPT ![w] = "lock"]
    /\ lock' = IF GuardHeldInJob THEN 0 ELSE lock
    /\ UNCHANGED <<size, poisoned, newPc, sender, receiver, queue, workers, t0, kind,
                   cpc, started, dropPc, joinIdx, now, tpc>>

\* test.rs:24-30  the 4 numbers have been received; assert_eq!
TestCollect ==
    /\ tpc = "collect"
    /\ Len(numbers) = TestJobs
    /\ tpc' = IF numbers = Expected THEN "passed" ELSE "failed"
    /\ UNCHANGED <<now, numbers>>
    /\ UNCHANGED poolVars

\* test.rs:31  the test function ends (or unwinds): the pool is dropped
TestDropBegin ==
    /\ tpc \in {"passed", "failed"}
    /\ DropBegin
    /\ UNCHANGED testVars

\* The steps that take no time.
TestUrgent ==
    \/ NewAssert /\ UNCHANGED testVars
    \/ NewChannel /\ UNCHANGED testVars
    \/ SpawnOk /\ UNCHANGED testVars
    \/ NewReturn /\ UNCHANGED testVars
    \/ TestSubmit
    \/ \E w \in WorkerIds : Lock(w) /\ UNCHANGED testVars
    \/ \E w \in WorkerIds : RecvOk(w) /\ UNCHANGED testVars
    \/ \E w \in WorkerIds : RecvErr(w) /\ UNCHANGED testVars
    \/ \E w \in WorkerIds : Release(w) /\ UNCHANGED testVars
    \/ \E w \in WorkerIds : SleepJobReturn(w)
    \/ TestCollect
    \/ TestDropBegin
    \/ Join /\ UNCHANGED testVars
    \/ DropReturn /\ UNCHANGED testVars

\* The times at which the sleeps in progress end.
Wakeups == {t0[w] + Duration(wjob[w]) : w \in {v \in WorkerIds : wpc[v] = "exec"}}

\* thread::sleep (test.rs:17): with nothing else to do, the clock moves to the
\* end of the earliest sleep in progress
Tick ==
    /\ ~ENABLED TestUrgent
    /\ Wakeups # {}
    /\ now' = CHOOSE t \in Wakeups : \A u \in Wakeups : t <= u
    /\ UNCHANGED <<tpc, numbers>>
    /\ UNCHANGED poolVars

TestInit == InitWith(TestSize)

TestNext == TestUrgent \/ Tick

TestSpec == TestInit /\ [][TestNext]_vars

\* ============================================================== properties

\* C1: completion before teardown. When Drop::drop has returned, every job
\* that execute() enqueued has run to completion: none is left in the queue
\* and no worker is still executing one.
C1_CompletionBeforeTeardown ==
    dropPc = "returned" =>
        /\ queue = <<>>
        /\ \A j \in Submitted : j \in finished
        /\ \A w \in WorkerIds : wpc[w] # "exec" /\ wjob[w] = NoJob

\* Drop has returned on a two-worker pool after at least two jobs ran.
C1_Witness ==
    /\ dropPc = "returned"
    /\ size = 2
    /\ Cardinality(finished) >= 2

\* C2: no lost or duplicated jobs. Every enqueued job is either still waiting
\* in the queue or has been handed to a worker exactly once.
C2_ExactlyOnce ==
    \A j \in Submitted :
        Count(started, j) + (IF InQueue(j) THEN 1 ELSE 0) = 1

\* C3: no leaked threads. Once teardown has ended (drop returned, or panicked
\* out of a join) no worker thread of the pool is alive.
C3_NoLeakedThreads ==
    dropPc \in {"returned", "aborted"} => LiveWorkers = {}

\* C4: teardown terminates. Once the sender is closed and no submitted job
\* runs forever, the system cannot come to rest before every worker has
\* observed closure and terminated and drop has returned.
C4_TeardownTerminates ==
    (/\ dropPc # "live"
     /\ \A j \in Submitted : kind[j] # "loop"
     /\ ~ENABLED Next)
        => /\ dropPc = "returned"
           /\ \A w \in 1..size : wpc[w] = "terminated"

\* C5: capacity. Right after a successful ThreadPool::new(size), before any
\* job is submitted or the pool dropped, there are exactly `size` handles and
\* exactly `size` live worker threads.
C5_CapacityInvariant ==
    (newPc = "ok" /\ dropPc = "live" /\ Submitted = {}) =>
        /\ Len(workers) = size
        /\ \A i \in 1..Len(workers) : workers[i] = "Some"
        /\ LiveWorkers = 1..size
        /\ Cardinality(LiveWorkers) = size

\* new(MaxSize) has just returned Ok.
C5_Witness ==
    /\ newPc = "ok"
    /\ dropPc = "live"
    /\ Submitted = {}
    /\ size = MaxSize
    /\ Cardinality(LiveWorkers) = MaxSize

\* C6: zero-size rejection. ThreadPool::new(0) never gets past its assertion:
\* it creates no channel and no thread and returns neither Ok nor Err.
C6_ZeroSizeRejected ==
    size = 0 =>
        /\ newPc \in {"call", "panicked"}
        /\ sender = "none"
        /\ receiver = "none"
        /\ workers = <<>>
        /\ \A w \in WorkerIds : wpc[w] = "unborn"

\* new(0) has panicked.
C6_Witness == size = 0 /\ newPc = "panicked"

\* C7: submission never blocks. On a live pool a caller's execute() can
\* always take its step, whatever the queue holds and whatever the workers
\* are doing; while the receiver exists the step enqueues the job and
\* returns to the caller.
C7_SubmissionNeverBlocks ==
    \A c \in Callers :
        (PoolLive /\ cpc[c] = "ready" /\ JobsLeft) =>
            /\ \A k \in Kinds : ENABLED Execute(c, k)
            /\ receiver = "live" =>
                   \A k \in Kinds :
                       ENABLED (/\ Execute(c, k)
                                /\ Len(queue') = Len(queue) + 1
                                /\ queue'[Len(queue')] = NextJob(c)
                                /\ cpc'[c] = "ready")

\* Every worker is stuck in a job that never returns, a job is waiting in the
\* queue, and a caller is about to submit another.
C7_Witness ==
    /\ PoolLive
    /\ size >= 1
    /\ \A w \in 1..size : wpc[w] = "exec" /\ kind[wjob[w]] = "loop"
    /\ queue # <<>>
    /\ JobsLeft
    /\ \E c \in Callers : cpc[c] = "ready"

\* C8: per-caller FIFO. A job is handed to a worker only after every earlier
\* job of the same caller has been handed to one.
C8_PerCallerFifo ==
    \A q \in 1..Len(started) :
        \A k \in 1..(started[q][2] - 1) :
            \E p \in 1..(q - 1) : started[p] = <<started[q][1], k>>

\* Both callers have submitted, and two jobs of one caller have been dequeued
\* by two different workers that are both still executing.
C8_Witness ==
    /\ \A c \in Callers : SubmittedBy(c) # {}
    /\ \E v, w \in WorkerIds :
           /\ v # w
           /\ wpc[v] = "exec" /\ wpc[w] = "exec"
           /\ wjob[v][1] = wjob[w][1]
           /\ wjob[v][2] < wjob[w][2]

\* C9: mutually exclusive receive. At most one worker is between acquiring
\* and releasing the receiver's guard, and it is the one the lock names.
C9_MutualExclusion ==
    /\ Cardinality({w \in WorkerIds : wpc[w] \in {"recv", "gotOk", "gotErr"}}) <= 1
    /\ \A w \in WorkerIds : wpc[w] \in {"recv", "gotOk", "gotErr"} <=> lock = w

\* One worker is blocked in recv holding the guard while another waits for it.
C9_Witness ==
    \E v, w \in WorkerIds :
        /\ v # w
        /\ wpc[v] = "recv" /\ lock = v
        /\ wpc[w] = "lock"

\* C10: the timed test scenario. With 3 workers and 4 jobs sleeping 250, 500,
\* 750 and 1000 ms, the first three jobs start at time 0 and the fourth when
\* the first sleep ends (250); the collector receives the indices in the
\* order 1, 2, 3, 4, each once; the assertion never fails, and the scenario
\* cannot come to rest before the test has passed.
C10_TestOrder ==
    /\ tpc # "failed"
    /\ Len(numbers) <= TestJobs
    /\ \A i \in 1..Len(numbers) : numbers[i] = i
    /\ \A w \in WorkerIds :
           wpc[w] = "exec" =>
               t0[w] = (IF wjob[w][2] <= TestSize THEN 0 ELSE SleepStart)
    /\ (~ENABLED TestNext) => tpc = "passed"

\* The test has passed with all four indices collected, and the pool is gone.
C10_Witness ==
    /\ tpc = "passed"
    /\ numbers = Expected
    /\ now = SleepStart + Duration(<<TestCaller, TestJobs>>)
    /\ dropPc = "returned"

\* C11: in-job failure isolation. A job's panic never ends the worker thread
\* that runs it: no worker is ever dead from a panic, and a live pool keeps
\* all `size` workers serving.
C11_FailureIsolation ==
    /\ \A w \in WorkerIds : wpc[w] # "panicked"
    /\ PoolLive => Cardinality(LiveWorkers) = size

\* C12: submission succeeds for the pool's whole valid lifetime. Between a
\* successful construction and the start of teardown the Receiver exists, and
\* no caller's execute() has panicked on a failed send.
C12_SubmissionSucceeds ==
    /\ PoolLive => receiver = "live"
    /\ newPc = "ok" => \A c \in Callers : cpc[c] # "panicked"

\* C13: a thread-creation failure is a recoverable construction error. Once
\* ThreadPool::new(size >= 1) is over, either all `size` threads were spawned
\* and it returned Ok with `size` handles, or a spawn failed and it returned
\* the error: it did not panic, and no pool exists (no handles, the sender
\* dropped, nothing ever submitted or torn down).
C13_SpawnErrorReturned ==
    (size > 0 /\ newPc \notin {"call", "channel", "spawn"}) =>
        IF Cardinality(Born) = size
          THEN newPc = "ok" /\ Len(workers) = size
          ELSE /\ newPc = "err"
               /\ workers = <<>>
               /\ sender = "dropped"
               /\ dropPc = "live"
               /\ Submitted = {}

\* new(2) returned the error of its second spawn.
C13_Witness ==
    /\ newPc = "err"
    /\ size = 2
    /\ Cardinality(Born) = 1

\* C14: a join failure aborts teardown. Drop returns normally only when no
\* worker ended by panicking; a panicked worker that drop has joined means
\* drop panicked at that join.
C14_JoinFailureAborts ==
    /\ dropPc = "returned" => \A w \in 1..size : wpc[w] = "terminated"
    /\ \A i \in 1..Len(workers) :
           (workers[i] = "None" /\ wpc[i] = "panicked") =>
               (dropPc = "aborted" /\ joinIdx = i)
    /\ dropPc = "aborted" =>
           (joinIdx \in 1..Len(workers) /\ wpc[joinIdx] = "panicked")

\* Drop joined worker 1 normally and panicked at the join of worker 2.
C14_Witness ==
    /\ dropPc = "aborted"
    /\ size = 2
    /\ joinIdx = 2
    /\ workers[1] = "None" /\ wpc[1] = "terminated"
    /\ workers[2] = "None" /\ wpc[2] = "panicked"

\* C15: execution happens outside the receive lock. A worker that is
\* executing a job never holds the guard, so executing workers keep no other
\* worker from the lock or from the queue: with the guard free a waiting
\* worker can take it, and a worker inside recv can take a waiting job.
C15_ExecOutsideLock ==
    /\ \A w \in WorkerIds : wpc[w] = "exec" => lock # w
    /\ \A v \in WorkerIds :
           (/\ wpc[v] = "lock"
            /\ \A u \in WorkerIds : wpc[u] \notin {"recv", "gotOk", "gotErr"})
               => ENABLED Lock(v)
    /\ \A v \in WorkerIds :
           (wpc[v] = "recv" /\ queue # <<>>) => ENABLED RecvOk(v)

\* Both workers of a pool of 2 are executing never-ending jobs at once, and
\* the guard is free.
C15_Witness ==
    /\ size = 2
    /\ \A w \in 1..2 : wpc[w] = "exec" /\ kind[wjob[w]] = "loop"
    /\ lock = 0

\* C16: fixed worker set, termination only on closure. While the pool is
\* live all `size` workers are alive; a worker has seen closure or terminated
\* only with the sender closed and the queue empty.
C16_FixedWorkerSet ==
    /\ PoolLive => LiveWorkers = 1..size
    /\ \A w \in WorkerIds :
           wpc[w] \in {"gotErr", "terminated"} =>
               (sender = "dropped" /\ queue = <<>>)

\* C17: two-phase teardown order. In every step of every run: once drop has
\* begun the sender is closed, and stays closed; handles are taken only by
\* drop, one after another in creation order, each once (a taken handle is
\* never restored); and once the sender is closed no job is added.
C17_TwoPhaseTeardown ==
    [][/\ dropPc' # "live" => sender' = "dropped"
       /\ dropPc' = "live" => \A i \in 1..Len(workers') : workers'[i] = "Some"
       /\ dropPc' \in {"join", "aborted"} =>
              /\ joinIdx' >= 1
              /\ \A i \in 1..Len(workers') :
                     workers'[i] = "None" <=>
                         (i < joinIdx' \/ (dropPc' = "aborted" /\ i = joinIdx'))
       /\ dropPc' = "returned" =>
              \A i \in 1..Len(workers') : workers'[i] = "None"
       /\ sender = "dropped" =>
              /\ sender' = "dropped"
              /\ kind' = kind
              /\ Len(queue') <= Len(queue)
       /\ dropPc # "live" =>
              /\ joinIdx' >= joinIdx
              /\ Len(workers') = Len(workers)
              /\ \A i \in 1..Len(workers) :
                     workers[i] = "None" => workers'[i] = "None"
      ]_vars

\* Drop has closed the sender and joined worker 1 of 2; worker 2 is next.
C17_Witness ==
    /\ dropPc = "join"
    /\ size = 2
    /\ joinIdx = 2
    /\ workers = <<"None", "Some">>
    /\ sender = "dropped"

\* C18: work conservation. Under fair scheduling, whenever a job is waiting
\* in the queue and some worker is idle (waiting for the guard, or inside
\* recv), a job is eventually dequeued.
C18_WorkConservation ==
    \A n \in 0..JobsBound :
        (/\ Len(started) = n
         /\ queue # <<>>
         /\ \E w \in WorkerIds : wpc[w] \in {"lock", "recv"})
            ~> (Len(started) > n)

\* One worker is stuck in a never-ending job, the other is idle,
\* waiting for the guard, and a job is waiting in the queue.
C18_Witness ==
    /\ size = 2
    /\ \E v, w \in 1..2 :
           /\ wpc[v] = "exec" /\ kind[wjob[v]] = "loop"
           /\ wpc[w] = "lock"
    /\ queue # <<>>

C20_NoPoison ==
    /\ ~poisoned
    /\ lock # 0 => wpc[lock] \in {"recv", "gotOk", "gotErr"}
    /\ \A w \in WorkerIds :
           wpc[w] \in {"exec", "panicked", "terminated"} => lock # w
    /\ (\E v \in WorkerIds : wpc[v] = "panicked") =>
           \A w \in WorkerIds :
               /\ (wpc[w] = "lock" /\ lock = 0) =>
                      ENABLED (Lock(w) /\ wpc'[w] = "recv")
               /\ (wpc[w] = "recv" /\ queue # <<>>) =>
                      ENABLED (RecvOk(w) /\ wpc'[w] = "gotOk")

\* One worker has died in a panicking job; the other holds the guard inside
\* recv, with a job waiting for it.
C20_Witness ==
    \E v, w \in WorkerIds :
        /\ wpc[v] = "panicked"
        /\ wpc[w] = "recv" /\ lock = w
        /\ queue # <<>>

====
